---- MODULE Spec2Model ----
(***************************************************************************)
(* A model of sacpy's cross-correlation stacking program                    *)
(* (src/bin/cc_stack_sac.py, with the geometry kernel of src/geomath.py).   *)
(*                                                                          *)
(* Numbers.  Every angle (distance, longitude, latitude, azimuth) is an     *)
(* integer number of tenths of a degree, so that the program's literals     *)
(* (-0.1, 90.1, 0.5 * dist_step) are exact; Deg(n) is n degrees.  Rounding  *)
(* of floats is not modelled: comparisons and np.round are taken on the     *)
(* exact rationals.  A complex sample is a pair <<re, im>> of integers.     *)
(*                                                                          *)
(* Kernels.  The trigonometric kernels of geomath.py (haversine, the cross  *)
(* product of great_circle_plane_center, point_distance_to_great_circle_    *)
(* plane) and the FFT / filter library are not computable here: their       *)
(* results are inputs, drawn from bounded sets; what the program does with  *)
(* a result (orientation of the pole, rectangle tests, folding, rounding,   *)
(* binning, indexing, accumulation) is computed as the code computes it.    *)
(***************************************************************************)
EXTENDS Integers, Sequences, FiniteSets, TLC

VARIABLES
    \* ---- one evaluation of the pair predicates (SpecPair)
    pair_in,        \* the inputs of one receiver pair and the selection settings
    pair_out,       \* "pending", or what the pair loop body did with the pair
    \* ---- one pass of ccstack / ccstack_selection_ev over one group (SpecPass)
    pass_cfg,       \* the arguments of the pass that do not change
    pass_group,     \* the group: spectra, azimuths and the kernels' results
    isac1, isac2,   \* the loop indices
    pass_acc,       \* stack_mat, stack_count, count and the status of the pass
    \* ---- one call of rd_preproc_whiten_single (SpecRead)
    rd_cfg,         \* the arguments of the call that do not change
    fnms,           \* the sorted files of the group: what reading each one gives
    rd,             \* the loop position, index, the arrays and the status
    \* ---- a run of main on mpi_ncpu processes (Spec)
    cfg,            \* the arguments of main
    mpi_ncpu,       \* the number of processes
    fs,             \* the directories the wildcard matches, by name
    proc,           \* per rank: position, log file, job range, stacks, globals
    reduce_mat,     \* the Reduce of line 254: contributions in arrival order
    reduce_cnt,     \* the Reduce of line 255: contributions in arrival order
    output,         \* what rank 0 wrote to the hdf5 and the sac outputs
    \* ---- the dist vector of main, line 170 (SpecDist)
    dist_cfg,       \* dist_range and dist_step
    dist_out,       \* the vector, once made
    \* ---- the finisher of rank 0 on one row of the stack (SpecPost)
    post_cfg,       \* npts, the post-processing options
    post_st,        \* the position, the row, the lag axis, what was applied
    \* ---- one call of get_bound (SpecBound)
    gb_in,          \* fftsize, the magnitude of the filter's spectrum, the level
    gb_out          \* (i1, i2), once returned

varsPair == <<pair_in, pair_out>>
varsPass == <<pass_cfg, pass_group, isac1, isac2, pass_acc>>
varsRead == <<rd_cfg, fnms, rd>>
varsMain == <<cfg, mpi_ncpu, fs, proc, reduce_mat, reduce_cnt, output>>
varsDist == <<dist_cfg, dist_out>>
varsPost == <<post_cfg, post_st>>
varsBound == <<gb_in, gb_out>>
vars == <<varsPair, varsPass, varsRead, varsMain, varsDist, varsPost, varsBound>>

(***************************************************************************)
(* Arithmetic                                                               *)
(***************************************************************************)
Deg(n) == 10 * n

Abs(x) == IF x < 0 THEN -x ELSE x

Max(a, b) == IF a >= b THEN a ELSE b

Min(a, b) == IF a <= b THEN a ELSE b

\* ceil(a / b) for b > 0
CeilDiv(a, b) == -((-a) \div b)

\* np.round(a / b) for b # 0: round half to even
RoundHalfEven(a, b) ==
    LET n == IF b < 0 THEN -a ELSE a
        m == Abs(b)
        q == n \div m
        r == n % m
    IN  IF 2 * r < m THEN q
        ELSE IF 2 * r > m THEN q + 1
        ELSE IF q % 2 = 0 THEN q ELSE q + 1

\* complex numbers
CZero == <<0, 0>>

CAdd(a, b) == <<a[1] + b[1], a[2] + b[2]>>

CConj(a) == <<a[1], -a[2]>>

CMul(a, b) == <<a[1] * b[1] - a[2] * b[2], a[1] * b[2] + a[2] * b[1]>>

\* stack_count is an int32 array: a sum wraps at 32 bits
MaxInt32 == 2147483647

AddInt32(a, b) ==
    IF a > 0 /\ b > MaxInt32 - a THEN (a - MaxInt32 - 1) + (b - MaxInt32 - 1)
    ELSE IF a < 0 /\ b < (-MaxInt32 - 1) - a THEN (a + MaxInt32 + 1) + (b + MaxInt32 + 1)
    ELSE a + b

(***************************************************************************)
(* main: the stack that is allocated                                        *)
(***************************************************************************)
\* len(np.arange(dist_range[0], dist_range[1] + dist_step)): the step of the
\* arange is 1.0 whatever dist_step is
NumBins(dmin, dmax, step) == Max(0, CeilDiv(dmax + step - dmin, Deg(1)))

ZeroCount(B) == [b \in 0..(B - 1) |-> 0]

ZeroMat(B, ncol) == [b \in 0..(B - 1) |-> [k \in 0..(ncol - 1) |-> CZero]]

(***************************************************************************)
(* geomath.py                                                               *)
(***************************************************************************)
FullTurn == 3600

HalfTurn == 1800

antipode(lon, lat) == <<(lon + HalfTurn) % FullTurn, -lat>>

\* great_circle_plane_center from the pole <<lon, lat>> of the cross product
\* (lon already reduced modulo 360): the pair (northern pole, its antipode)
great_circle_plane_center(pole) ==
    IF pole[2] > 0 THEN <<pole, antipode(pole[1], pole[2])>>
    ELSE <<antipode(pole[1], pole[2]), pole>>

\* point_distance_to_great_circle_plane: 0.0 when the two points that define
\* the plane coincide, else the kernel's signed cross-track distance
point_distance_to_great_circle_plane(coincide, xt) == IF coincide THEN 0 ELSE xt

(***************************************************************************)
(* ccstack_selection_ev: the predicates of one pair                         *)
(***************************************************************************)
\* dist < dist1 or dist > dist2, with dist1, dist2 = dmin - step/2, dmax + step/2
DistRejected(d, dmin, dmax, step) ==
    2 * d < 2 * dmin - step \/ 2 * d > 2 * dmax + step

\* the centre the rectangles are tested on
PairCenter(pole) ==
    LET c == great_circle_plane_center(pole)
    IN  IF c[1][2] < 0 THEN c[2] ELSE c[1]

\* the test of one rectangle <<lo1, lo2, la1, la2>> that sets flag = 1
OutsideRect(x, y, rect) ==
    IF rect[1] < rect[2]
    THEN x < rect[1] \/ x > rect[2] \/ y < rect[3] \/ y > rect[4]
    ELSE x > rect[1] \/ x < rect[2] \/ y < rect[3] \/ y > rect[4]

\* flag == 1 after the loop over the rectangles
RectRejected(x, y, rects) ==
    \E k \in 1..Len(rects) : OutsideRect(x, y, rects[k])

\* the folded azimuth difference
FoldedDaz(az1, az2) ==
    LET a == (az1 - az2) % FullTurn
        b == IF a > HalfTurn THEN FullTurn - a ELSE a
    IN  IF b > Deg(90) THEN Deg(90) - b ELSE b

DazRejected(az1, az2, range) ==
    FoldedDaz(az1, az2) < range[1] \/ FoldedDaz(az1, az2) > range[2]

GcdRejected(coincide, xt, range) ==
    LET gcd == Abs(point_distance_to_great_circle_plane(coincide, xt))
    IN  gcd < range[1] \/ gcd > range[2]

\* which `continue` of ccstack_selection_ev the pair takes: "dist", "rect",
\* "daz", "gcd", or "pass" when it reaches the accumulation
Verdict(p, c) ==
    IF DistRejected(p.dist, c.dmin, c.dmax, c.step) THEN "dist"
    ELSE IF RectRejected(PairCenter(p.pole)[1], PairCenter(p.pole)[2], c.rects)
    THEN "rect"
    ELSE IF DazRejected(p.az1, p.az2, c.daz) THEN "daz"
    ELSE IF GcdRejected(p.coincide, p.xt, c.gcd) THEN "gcd"
    ELSE "pass"

\* idx = int(np.round((dist - dist_start) / dist_step)), dist_step # 0
BinIndex(d, dstart, step) == RoundHalfEven(d - dstart, step)

\* the row that stack_mat[idx] addresses in an array of B rows: a negative
\* index counts from the end; -1 when the address is outside the array
RowOf(idx, B) ==
    IF idx >= 0 /\ idx < B THEN idx
    ELSE IF idx < 0 /\ idx + B >= 0 THEN idx + B
    ELSE -1

(***************************************************************************)
(* ccstack, ccstack_selection_ev: the body of the pair loop                 *)
(***************************************************************************)
\* what the kernels and the headers give for the pair (i, j) of group g
PairInputs(g, i, j) ==
    [dist |-> g.dist[<<i, j>>], coincide |-> g.coincide[<<i, j>>],
     pole |-> g.pole[<<i, j>>], xt |-> g.xt[<<i, j>>],
     az1 |-> g.az[i], az2 |-> g.az[j]]

\* (stack_mat[row][i1:i2] += spec1[i1:i2] * spec2[i1:i2], without np.conj)
AddRow_NoConj(mat, row, spec1, spec2, i1, i2) ==
    [mat EXCEPT ![row] =
        [k \in DOMAIN mat[row] |->
            IF k >= i1 /\ k < i2
            THEN CAdd(mat[row][k], CMul(spec1[k], spec2[k]))
            ELSE mat[row][k]]]

\* stack_mat[row][i1:i2] += conj(spec1[i1:i2]) * spec2[i1:i2]
AddRow(mat, row, spec1, spec2, i1, i2) ==
    [mat EXCEPT ![row] =
        [k \in DOMAIN mat[row] |->
            IF k >= i1 /\ k < i2
            THEN CAdd(mat[row][k], CMul(CConj(spec1[k]), spec2[k]))
            ELSE mat[row][k]]]

\* A value that a write through an index outside both arrays can leave in a
\* bin of stack_count when the two arrays are neighbours in memory.
StrayValue == 7

\* The three statements after the predicates.  The loops are compiled with
\* nopython=True and without bounds checks: an index outside the array is a
\* write to memory the array does not own, whose outcome is not defined:
\* nothing of the stack changes, the process faults, or a bin of the count
\* array is overwritten.  A zero dist_step raises ZeroDivisionError.
Accumulate(acc, g, i, j, c) ==
    IF c.step = 0 THEN {[acc EXCEPT !.status = "raised"]}
    ELSE
      LET idx == BinIndex(g.dist[<<i, j>>], c.dmin, c.step)
          B   == NumBins(c.dmin, c.dmax, c.step)
          row == RowOf(idx, B)
      IN  IF row >= 0
          THEN {[acc EXCEPT
                   !.mat = AddRow(acc.mat, row, g.spec[i], g.spec[j], c.i1, c.i2),
                   !.cnt = [acc.cnt EXCEPT ![row] = AddInt32(acc.cnt[row], 1)],
                   !.count = acc.count + 1]}
          ELSE {[acc EXCEPT !.count = acc.count + 1],
                [acc EXCEPT !.status = "fault"]}
               \cup {[acc EXCEPT !.cnt = [acc.cnt EXCEPT ![b] = StrayValue],
                                 !.count = acc.count + 1] : b \in DOMAIN acc.cnt}

\* one turn of the inner loop of ccstack (c.sel false) or of
\* ccstack_selection_ev (c.sel true): the set of its possible outcomes
PairOutcomes(acc, g, i, j, c) ==
    IF c.sel /\ Verdict(PairInputs(g, i, j), c) # "pass" THEN {acc}
    ELSE Accumulate(acc, g, i, j, c)

\* the accumulator a pass starts from
Acc(mat, cnt) == [mat |-> mat, cnt |-> cnt, count |-> 0, status |-> "run"]

\* the pairs after (i, j) in loop order, for a group of n traces
RECURSIVE PassFrom(_, _, _, _, _)
PassFrom(acc, g, i, j, c) ==
    IF acc.status # "run" \/ i >= g.n THEN {acc}
    ELSE IF j >= g.n THEN PassFrom(acc, g, i + 1, i + 1, c)
    ELSE UNION {PassFrom(a, g, i, j + 1, c) : a \in PairOutcomes(acc, g, i, j, c)}

\* ccstack(...) / ccstack_selection_ev(...): every outcome of a whole pass
CCStack(mat, cnt, g, c) == PassFrom(Acc(mat, cnt), g, 0, 0, c)

(***************************************************************************)
(* Inputs                                                                   *)
(***************************************************************************)
MaxDist == 4

\* inter-station distances, every half degree up to MaxDist degrees
Dists == {5 * k : k \in 0..(2 * MaxDist)}

DefaultDazRange == <<-1, 901>>

DefaultGcdRange == <<-1, 901>>

DefaultRect == <<Deg(-9999), Deg(9999), Deg(-9999), Deg(9999)>>

\* dist_range and dist_step: (0, 2, 1), (0, 3, 1), (1, 3, 1), (0, 2, 0.5)
DistConfigs ==
    {[dmin |-> 0, dmax |-> Deg(2), step |-> Deg(1)],
     [dmin |-> 0, dmax |-> Deg(3), step |-> Deg(1)],
     [dmin |-> Deg(1), dmax |-> Deg(3), step |-> Deg(1)],
     [dmin |-> 0, dmax |-> Deg(2), step |-> 5]}

\* gc_center_rect: absent, the two rectangles of the docstring's example
\* (one, then both), and a rectangle across longitude 0
RectA == <<Deg(120), Deg(180), 0, Deg(35)>>

RectB == <<Deg(180), Deg(190), 0, Deg(10)>>

RectW == <<Deg(350), Deg(10), 0, Deg(40)>>

RectConfigs == {<<DefaultRect>>, <<RectA>>, <<RectA, RectB>>, <<RectW>>}

DazRanges == {DefaultDazRange, <<-1, Deg(15)>>}

GcdRanges == {DefaultGcdRange, <<-1, Deg(20)>>}

\* poles <<lon, lat>> of the cross product, lon in [0, 360)
Poles == {<<Deg(150), Deg(20)>>, <<Deg(185), Deg(5)>>, <<Deg(180), Deg(5)>>,
          <<Deg(5), Deg(5)>>, <<Deg(330), Deg(-20)>>, <<Deg(355), Deg(30)>>}

Azimuths == {0, Deg(100), Deg(280)}

CrossTracks == {Deg(-30), 0, Deg(10)}

\* the half-spectrum columns [i1, i2) that are accumulated
IndexRange == <<1, 2>>

\* the arguments of a pass: selection off (ccstack) ...
PlainConfig(d) ==
    [sel |-> FALSE, dmin |-> d.dmin, dmax |-> d.dmax, step |-> d.step,
     rects |-> <<DefaultRect>>, daz |-> DefaultDazRange, gcd |-> DefaultGcdRange,
     i1 |-> IndexRange[1], i2 |-> IndexRange[2]]

\* ... or on (ccstack_selection_ev)
SelConfig(d, rects, daz, gcd) ==
    [sel |-> TRUE, dmin |-> d.dmin, dmax |-> d.dmax, step |-> d.step,
     rects |-> rects, daz |-> daz, gcd |-> gcd,
     i1 |-> IndexRange[1], i2 |-> IndexRange[2]]

(***************************************************************************)
(* SpecPair: the loop body on one pair                                      *)
(***************************************************************************)
PairConfigs ==
    {PlainConfig(d) : d \in DistConfigs}
    \cup {SelConfig(d, r, a, g) :
            d \in DistConfigs, r \in RectConfigs, a \in DazRanges, g \in GcdRanges}

\* a pair of distinct stations, or the same station twice (distance 0)
PairSamples ==
    {[dist |-> d, coincide |-> FALSE, pole |-> p, xt |-> x, az1 |-> a1, az2 |-> a2] :
        d \in Dists, p \in Poles, x \in CrossTracks,
        a1 \in Azimuths, a2 \in {0, Deg(100)}}
    \cup {[dist |-> 0, coincide |-> TRUE, pole |-> p, xt |-> x, az1 |-> a1, az2 |-> a1] :
        p \in Poles, x \in CrossTracks, a1 \in Azimuths}

Pending == [verdict |-> "pending", idx |-> 0, row |-> -1]

InitPair ==
    /\ pair_in \in {[p |-> p, c |-> c] : p \in PairSamples, c \in PairConfigs}
    /\ pair_out = Pending

\* the loop body: the predicates, then the index of the row written
EvaluatePair ==
    /\ pair_out.verdict = "pending"
    /\ LET p == pair_in.p
           c == pair_in.c
           v == IF c.sel THEN Verdict(p, c) ELSE "pass"
           idx == BinIndex(p.dist, c.dmin, c.step)
       IN  pair_out' =
             [verdict |-> v,
              idx |-> IF v = "pass" THEN idx ELSE 0,
              row |-> IF v = "pass"
                      THEN RowOf(idx, NumBins(c.dmin, c.dmax, c.step)) ELSE -1]
    /\ UNCHANGED <<pair_in, varsPass, varsRead, varsMain, varsDist, varsPost, varsBound>>

(***************************************************************************)
(* SpecPass: one pass over one group, pair by pair                          *)
(***************************************************************************)
MaxTraces == 2

\* the spectrum row of trace i (columns 0 .. i2-1)
SpecRow(i) == [k \in 0..(IndexRange[2] - 1) |-> <<i + 1, k + i>>]

PairsOf(n) == {<<i, j>> \in (0..(n - 1)) \X (0..(n - 1)) : i <= j}

PassPoles == {<<Deg(150), Deg(20)>>, <<Deg(5), Deg(5)>>}

\* groups of n traces: a trace is at distance 0 of itself
PassGroups ==
    UNION {
      {[n |-> n, spec |-> [i \in 0..(n - 1) |-> SpecRow(i)],
        az |-> [i \in 0..(n - 1) |-> 0],
        dist |-> [q \in PairsOf(n) |-> IF q[1] = q[2] THEN 0 ELSE d],
        coincide |-> [q \in PairsOf(n) |-> q[1] = q[2]],
        pole |-> pl,
        xt |-> [q \in PairsOf(n) |-> 0]] :
          d \in Dists, pl \in [PairsOf(n) -> PassPoles]} :
      n \in 0..MaxTraces}

ZeroStep == [dmin |-> 0, dmax |-> Deg(2), step |-> 0]

PassConfigs ==
    {PlainConfig(d) : d \in DistConfigs \cup {ZeroStep}}
    \cup {SelConfig(d, <<RectA>>, DefaultDazRange, DefaultGcdRange) :
            d \in DistConfigs \cup {ZeroStep}}

InitPass ==
    /\ pass_cfg \in PassConfigs
    /\ pass_group \in PassGroups
    /\ isac1 = 0
    /\ isac2 = 0
    /\ pass_acc =
         LET B == NumBins(pass_cfg.dmin, pass_cfg.dmax, pass_cfg.step)
         IN  Acc(ZeroMat(B, pass_cfg.i2), ZeroCount(B))

\* for isac2 in range(isac1, nsac): one pair
PairStep ==
    /\ pass_acc.status = "run"
    /\ isac1 < pass_group.n
    /\ isac2 < pass_group.n
    /\ pass_acc' \in PairOutcomes(pass_acc, pass_group, isac1, isac2, pass_cfg)
    /\ isac2' = isac2 + 1
    /\ UNCHANGED <<pass_cfg, pass_group, isac1, varsPair, varsRead, varsMain, varsDist, varsPost, varsBound>>

\* for isac1 in range(nsac): the inner loop is exhausted
NextRow ==
    /\ pass_acc.status = "run"
    /\ isac1 < pass_group.n
    /\ isac2 >= pass_group.n
    /\ isac1' = isac1 + 1
    /\ isac2' = isac1 + 1
    /\ UNCHANGED <<pass_cfg, pass_group, pass_acc, varsPair, varsRead, varsMain, varsDist, varsPost, varsBound>>

\* return count
PassReturn ==
    /\ pass_acc.status = "run"
    /\ isac1 >= pass_group.n
    /\ pass_acc' = [pass_acc EXCEPT !.status = "returned"]
    /\ UNCHANGED <<pass_cfg, pass_group, isac1, isac2, varsPair, varsRead, varsMain, varsDist, varsPost, varsBound>>

IdlePair == pair_in = "none" /\ pair_out = "none"

IdlePass ==
    /\ pass_cfg = "none"
    /\ pass_group = "none"
    /\ isac1 = 0
    /\ isac2 = 0
    /\ pass_acc = "none"

IdleRead == rd_cfg = "none" /\ fnms = "none" /\ rd = "none"

IdleMain ==
    /\ cfg = "none" /\ mpi_ncpu = 0 /\ fs = "none" /\ proc = "none"
    /\ reduce_mat = "none" /\ reduce_cnt = "none" /\ output = "none"

IdleDist == dist_cfg = "none" /\ dist_out = "none"

IdlePost == post_cfg = "none" /\ post_st = "none"

IdleBound == gb_in = "none" /\ gb_out = "none"

NextPair == EvaluatePair

StartPair == InitPair /\ IdlePass /\ IdleRead /\ IdleMain /\ IdleDist /\ IdlePost /\ IdleBound

SpecPair == StartPair /\ [][NextPair]_vars

NextPass == PairStep \/ NextRow \/ PassReturn

StartPass == InitPass /\ IdlePair /\ IdleRead /\ IdleMain /\ IdleDist /\ IdlePost /\ IdleBound

SpecPass == StartPass /\ [][NextPass]_vars

(***************************************************************************)
(* Claims on the pair loop                                                  *)
(***************************************************************************)
RECURSIVE SumUpTo(_, _)
\* f[0] + ... + f[k-1]
SumUpTo(f, k) == IF k <= 0 THEN 0 ELSE f[k - 1] + SumUpTo(f, k - 1)

PassBins == NumBins(pass_cfg.dmin, pass_cfg.dmax, pass_cfg.step)

\* the pairs of the group of the pass that pass every enabled predicate
PassAccepted ==
    {q \in PairsOf(pass_group.n) :
        ~pass_cfg.sel
        \/ Verdict(PairInputs(pass_group, q[1], q[2]), pass_cfg) = "pass"}

PassBinOf(q) == BinIndex(pass_group.dist[q], pass_cfg.dmin, pass_cfg.step)

\* C1 (as claimed): when a pass has returned, every bin b of [0, B) counts
\* exactly the accepted pairs whose bin index round((d - dist_start)/dist_step)
\* is b, and the counts add up to n(n+1)/2 minus the rejected pairs.
C1_CountIsPairsOfBin ==
    pass_acc.status = "returned" =>
        /\ \A b \in 0..(PassBins - 1) :
              pass_acc.cnt[b] = Cardinality({q \in PassAccepted : PassBinOf(q) = b})
        /\ SumUpTo(pass_acc.cnt, PassBins) = Cardinality(PassAccepted)

\* C5 (as claimed): the rectangle predicate rejects a pair only if its centre
\* is outside every configured rectangle (each rectangle tested as the code
\* tests a single one).
C5_RejectedOnlyOutsideEvery ==
    (pair_in.c.sel /\ pair_out.verdict = "rect") =>
        \A k \in 1..Len(pair_in.c.rects) :
            OutsideRect(PairCenter(pair_in.p.pole)[1], PairCenter(pair_in.p.pole)[2],
                        pair_in.c.rects[k])

\* a turn of the inner loop of the pass, on a pair whose index is computed
PlainPairTurn ==
    /\ pass_acc.status = "run"
    /\ isac2' = isac2 + 1 /\ isac1' = isac1
    /\ ~pass_cfg.sel
    /\ pass_cfg.step # 0

\* C6 (as claimed): with selection disabled, a pair whose bin index is outside
\* [0, B) changes no row of the stack and no count, and the pass goes on.
C6_OutOfRangeDropped ==
    [][(PlainPairTurn
        /\ (PassBinOf(<<isac1, isac2>>) < 0 \/ PassBinOf(<<isac1, isac2>>) >= PassBins))
       => (/\ pass_acc'.mat = pass_acc.mat
           /\ pass_acc'.cnt = pass_acc.cnt
           /\ pass_acc'.status = "run")]_vars

\* C7 (as claimed): with selection enabled, the bin index of a pair that
\* passes the predicates is a row of the stack: 0 <= idx < B.
C7_AcceptedIndexInRange ==
    (pair_in.c.sel /\ pair_out.verdict = "pass") =>
        (pair_out.idx >= 0
         /\ pair_out.idx < NumBins(pair_in.c.dmin, pair_in.c.dmax, pair_in.c.step))

\* the pair reached the rectangle test
PastDist ==
    /\ pair_in.c.sel
    /\ pair_out.verdict # "pending"
    /\ ~DistRejected(pair_in.p.dist, pair_in.c.dmin, pair_in.c.dmax, pair_in.c.step)

\* C16 (as claimed): with one rectangle whose lo1 >= lo2, the centre (x, y)
\* passes the rectangle test exactly when (x >= lo1 or x <= lo2) and
\* la1 <= y <= la2.
C16_WrapRectAcceptsOuterArc ==
    (PastDist /\ Len(pair_in.c.rects) = 1
              /\ pair_in.c.rects[1][1] >= pair_in.c.rects[1][2]) =>
        LET rect == pair_in.c.rects[1]
            x == PairCenter(pair_in.p.pole)[1]
            y == PairCenter(pair_in.p.pole)[2]
        IN  (pair_out.verdict # "rect") <=>
               ((x >= rect[1] \/ x <= rect[2]) /\ rect[3] <= y /\ y <= rect[4])

\* C17 (as claimed): the folded azimuth difference that is compared with
\* [daz_min, daz_max] lies in [0, 90].
C17_FoldedDazInRange ==
    (PastDist /\ pair_out.verdict \in {"daz", "gcd", "pass"}) =>
        (FoldedDaz(pair_in.p.az1, pair_in.p.az2) >= 0
         /\ FoldedDaz(pair_in.p.az1, pair_in.p.az2) <= Deg(90))

\* C25 (as claimed): a selection predicate left at the default that main
\* substitutes (daz (-0.1, 90.1), gcd (-0.1, 90.1), the rectangle
\* (-9999, 9999, -9999, 9999)) rejects no pair, whatever the azimuths and the
\* great-circle centre are: a pair is rejected only by the distance bounds or
\* by a configured predicate.
C25_DefaultsRejectNoPair ==
    (pair_out.verdict # "pending" /\ pair_in.c.sel) =>
        /\ pair_in.c.daz = DefaultDazRange => pair_out.verdict # "daz"
        /\ pair_in.c.gcd = DefaultGcdRange => pair_out.verdict # "gcd"
        /\ pair_in.c.rects = <<DefaultRect>> => pair_out.verdict # "rect"

(***************************************************************************)
(* rd_preproc_whiten_single                                                 *)
(***************************************************************************)
\* the configured sample interval, in milliseconds
ConfigDelta == 100

\* the bins of the half-spectrum of a trace, and the prefix [0, nrfft_valid)
\* that is kept
HalfSpectrumLen == 3

\* What reading the i-th file of a group gives.  read: "none" (c_rd_sac
\* returned None), "zero" (an all-zero cut), "nan" (a cut with non-finite
\* samples) or "data"; chain: what detrend, taper, filter and the whitening
\* make of finite data ("ok", or a vector that is non-finite or all zero);
\* spec: the rfft of the processed data; hdr: the header.
MkFile(read, chain, delta, i) ==
    [read |-> read, chain |-> chain,
     spec |-> [k \in 0..(HalfSpectrumLen - 1) |-> <<i, k + 1>>],
     hdr |-> [stlo |-> Deg(i), stla |-> Deg(i + 10), evlo |-> Deg(i + 20),
              evla |-> Deg(i + 30), az |-> Deg(i + 40), baz |-> Deg(i + 50),
              delta |-> delta]]

HeaderDeltas == {ConfigDelta, 2 * ConfigDelta}

FilesAt(i) ==
    {MkFile(r, "ok", ConfigDelta, i) : r \in {"none", "zero", "nan"}}
    \cup {MkFile("data", ch, ConfigDelta, i) : ch \in {"nan", "zero"}}
    \cup {MkFile("data", "ok", d, i) : d \in HeaderDeltas}

\* st.dat when the fft is reached: non-finite samples stay non-finite
Processed(f) == IF f.read = "nan" THEN "nan" ELSE f.chain

\* filter(...) of sacpy.processing with the band of pre_filter
FilterRaises(btype) == btype \notin {"lowpass", "highpass", "bandpass"}

ZeroRow(ncol) == [k \in 0..(ncol - 1) |-> CZero]

\* the state of the call before the loop: arrays of nsac zero rows
RdStart(nsac, c) ==
    [it |-> 1, index |-> 0, status |-> "loop",
     spectra |-> [r \in 0..(nsac - 1) |-> ZeroRow(c.nrfft_valid)],
     stlo |-> [r \in 0..(nsac - 1) |-> 0], stla |-> [r \in 0..(nsac - 1) |-> 0],
     evlo |-> [r \in 0..(nsac - 1) |-> 0], evla |-> [r \in 0..(nsac - 1) |-> 0],
     az |-> [r \in 0..(nsac - 1) |-> 0], baz |-> [r \in 0..(nsac - 1) |-> 0]]

\* one turn of `for it in fnms` on the file f
RdStep(r, f, c) ==
    IF f.read = "none" \/ f.read = "zero"
    THEN [r EXCEPT !.it = r.it + 1]
    ELSE IF c.pre_filter # "none" /\ FilterRaises(c.pre_filter)
    THEN [r EXCEPT !.status = "raised"]
    ELSE IF Processed(f) = "ok"
    THEN [r EXCEPT
            !.spectra[r.index] = [k \in 0..(c.nrfft_valid - 1) |-> f.spec[k]],
            !.stlo[r.index] = f.hdr.stlo, !.stla[r.index] = f.hdr.stla,
            !.evlo[r.index] = f.hdr.evlo, !.evla[r.index] = f.hdr.evla,
            !.az[r.index] = f.hdr.az, !.baz[r.index] = f.hdr.baz,
            !.index = r.index + 1, !.it = r.it + 1]
    ELSE [r EXCEPT !.it = r.it + 1]

\* a[:index]
Cut(a, index) == [r \in 0..(index - 1) |-> a[r]]

\* (the return without the cut of the arrays)
RdFinish_NoCut(r, nsac) == [r EXCEPT !.status = "returned"]

\* `if index < nsac:` the arrays are cut to index rows; return
RdFinish(r, nsac) ==
    IF r.index < nsac
    THEN [r EXCEPT
            !.spectra = Cut(r.spectra, r.index),
            !.stlo = Cut(r.stlo, r.index), !.stla = Cut(r.stla, r.index),
            !.evlo = Cut(r.evlo, r.index), !.evla = Cut(r.evla, r.index),
            !.az = Cut(r.az, r.index), !.baz = Cut(r.baz, r.index),
            !.status = "returned"]
    ELSE [r EXCEPT !.status = "returned"]

RECURSIVE RdLoop(_, _, _)
RdLoop(r, files, c) ==
    IF r.status # "loop" THEN r
    ELSE IF r.it > Len(files) THEN RdFinish(r, Len(files))
    ELSE RdLoop(RdStep(r, files[r.it], c), files, c)

\* the whole call
rd_preproc_whiten_single(files, c) == RdLoop(RdStart(Len(files), c), files, c)

(***************************************************************************)
(* SpecRead: one call of rd_preproc_whiten_single, file by file             *)
(***************************************************************************)
MaxFiles == 3

RECURSIVE FileListsOf(_)
\* the lists of n files
FileListsOf(n) ==
    IF n = 0 THEN {<<>>}
    ELSE {Append(l, f) : l \in FileListsOf(n - 1), f \in FilesAt(n)}

FileLists == UNION {FileListsOf(n) : n \in 0..MaxFiles}

ReadConfigs ==
    {[delta |-> ConfigDelta, pre_filter |-> b, nrfft_valid |-> IndexRange[2]] :
        b \in {"none", "bandpass", "bogus"}}

InitRead ==
    /\ rd_cfg \in ReadConfigs
    /\ fnms \in FileLists
    /\ rd = RdStart(Len(fnms), rd_cfg)

\* the body of the loop on the next file
ReadFile ==
    /\ rd.status = "loop"
    /\ rd.it <= Len(fnms)
    /\ rd' = RdStep(rd, fnms[rd.it], rd_cfg)
    /\ UNCHANGED <<rd_cfg, fnms, varsPair, varsPass, varsMain, varsDist, varsPost, varsBound>>

\* after the loop
ReadReturn ==
    /\ rd.status = "loop"
    /\ rd.it > Len(fnms)
    /\ rd' = RdFinish(rd, Len(fnms))
    /\ UNCHANGED <<rd_cfg, fnms, varsPair, varsPass, varsMain, varsDist, varsPost, varsBound>>

NextRead == ReadFile \/ ReadReturn

StartRead == InitRead /\ IdlePair /\ IdlePass /\ IdleMain /\ IdleDist /\ IdlePost /\ IdleBound

SpecRead == StartRead /\ [][NextRead]_vars

(***************************************************************************)
(* main: a run on mpi_ncpu processes                                        *)
(***************************************************************************)
MaxP == 2

MaxJ == 3

\* What a directory holds: its files, and the distance the haversine kernel
\* gives between two different stations of the group.
DirEmpty == [files |-> <<>>, sep |-> 0]

\* two good traces one degree apart, and a trace of non-finite samples
DirNear ==
    [files |-> <<MkFile("data", "ok", ConfigDelta, 1),
                 MkFile("nan", "ok", ConfigDelta, 2),
                 MkFile("data", "ok", ConfigDelta, 3)>>,
     sep |-> Deg(1)]

\* two good traces 3.5 degrees apart
DirFar ==
    [files |-> <<MkFile("data", "ok", ConfigDelta, 1),
                 MkFile("data", "ok", ConfigDelta, 2)>>,
     sep |-> Deg(3) + 5]

DirKinds == {DirEmpty, DirNear, DirFar}

\* the pole and the cross-track distance the kernels give for the pairs of a run
MainPole == <<Deg(150), Deg(20)>>

\* the arguments of main: those of a pass, of the reader, and the rest
MainConfig(p, pre, post, wf) ==
    [sel |-> p.sel, dmin |-> p.dmin, dmax |-> p.dmax, step |-> p.step,
     rects |-> p.rects, daz |-> p.daz, gcd |-> p.gcd, i1 |-> p.i1, i2 |-> p.i2,
     delta |-> ConfigDelta, pre_filter |-> pre, nrfft_valid |-> p.i2,
     post_filter |-> post, spectral_whiten |-> wf,
     output_format |-> {"hdf5", "sac"}]

\* dist_range (0, 2) and (0, 3) with dist_step 1
Dist02 == [dmin |-> 0, dmax |-> Deg(2), step |-> Deg(1)]

Dist03 == [dmin |-> 0, dmax |-> Deg(3), step |-> Deg(1)]

MainConfigs ==
    {MainConfig(PlainConfig(Dist02), "none", "bandpass", FALSE),
     MainConfig(SelConfig(Dist03, <<DefaultRect>>, <<-1, Deg(15)>>, DefaultGcdRange),
                "none", "bandpass", FALSE),
     MainConfig(PlainConfig(ZeroStep), "none", "bandpass", FALSE),
     MainConfig(PlainConfig(Dist02), "bogus", "bandpass", FALSE),
     MainConfig(PlainConfig(Dist02), "none", "none", TRUE),
     MainConfig(PlainConfig(Dist02), "none", "none", FALSE)}

Ranks == 0..(mpi_ncpu - 1)

RECURSIVE SortedSeq(_)
\* sorted(...) of a set of names
SortedSeq(S) ==
    IF S = {} THEN <<>>
    ELSE LET m == CHOOSE x \in S : \A y \in S : x <= y
         IN  <<m>> \o SortedSeq(S \ {m})

\* s[i1:i2] for 0 <= i1 <= i2
PySlice(s, i1, i2) == SubSeq(s, Min(i1, Len(s)) + 1, Min(i2, Len(s)))

\* (nchunk rounded down)
ChunkSize_Floor(njobs, ncpu) == njobs \div ncpu

\* nchunk of line 195
ChunkSize(njobs, ncpu) ==
    IF njobs % ncpu = 0 THEN njobs \div ncpu ELSE njobs \div ncpu + 1

\* a process before line 72
Fresh ==
    [pc |-> "start", log |-> "none", globbed |-> FALSE, nread |-> 0,
     mpi_i1 |-> 0, mpi_i2 |-> 0, jobs |-> <<>>, processed |-> <<>>,
     spec_stack_mat |-> ZeroMat(0, 0), stack_count |-> ZeroCount(0),
     global_is_none |-> TRUE,
     global_spec_stack_mat |-> ZeroMat(0, 0), global_stack_count |-> ZeroCount(0)]

\* lines 72-205 on one rank: the log file is opened, the parameters are
\* derived (get_bound reads post_filter[1]: a TypeError when post_filter is
\* None), the stacks are allocated, the directories are listed and the job
\* range is set
SetUp(p, rank, c, ncpu, dirs) ==
    IF c.post_filter = "none"
    THEN [p EXCEPT !.log = "open", !.pc = "raised"]
    ELSE LET B == NumBins(c.dmin, c.dmax, c.step)
             directories == SortedSeq(DOMAIN dirs)
             nchunk == ChunkSize(Len(directories), ncpu)
             i1 == rank * nchunk
             i2 == i1 + nchunk
         IN  [p EXCEPT
                !.log = "open", !.pc = "loop", !.globbed = TRUE,
                !.spec_stack_mat = ZeroMat(B, c.nrfft_valid),
                !.stack_count = ZeroCount(B),
                !.global_is_none = (rank # 0),
                !.global_spec_stack_mat =
                    IF rank = 0 THEN ZeroMat(B, c.nrfft_valid) ELSE ZeroMat(0, 0),
                !.global_stack_count = IF rank = 0 THEN ZeroCount(B) ELSE ZeroCount(0),
                !.mpi_i1 = i1, !.mpi_i2 = i2,
                !.jobs = PySlice(directories, i1, i2)]

\* the arguments of the pass over what the reader returned for directory d
GroupOf(r, d) ==
    LET n == Cardinality(DOMAIN r.stlo)
        same(q) == r.stlo[q[1]] = r.stlo[q[2]] /\ r.stla[q[1]] = r.stla[q[2]]
    IN  [n |-> n, spec |-> r.spectra, az |-> r.az,
         dist |-> [q \in PairsOf(n) |-> IF same(q) THEN 0 ELSE d.sep],
         coincide |-> [q \in PairsOf(n) |-> same(q)],
         pole |-> [q \in PairsOf(n) |-> MainPole],
         xt |-> [q \in PairsOf(n) |-> 0]]

\* lines 208-232 on directory d: every outcome of the turn.  evlo[0] of an
\* empty group is an IndexError when a selection is set.
GroupOutcomes(mat, cnt, d, c) ==
    LET r == rd_preproc_whiten_single(d.files, c)
        nread == IF r.status = "raised" THEN r.it ELSE r.it - 1
    IN  IF r.status = "raised" \/ (c.sel /\ DOMAIN r.evlo = {})
        THEN {[status |-> "raised", mat |-> mat, cnt |-> cnt, nread |-> nread]}
        ELSE {[status |-> IF a.status = "run" THEN "ok" ELSE a.status,
               mat |-> a.mat, cnt |-> a.cnt, nread |-> nread] :
                 a \in CCStack(mat, cnt, GroupOf(r, d), c)}

\* MPI.SUM on C_FLOAT_COMPLEX and on INT32_T buffers
MatAdd(a, b) == [r \in DOMAIN a |-> [k \in DOMAIN a[r] |-> CAdd(a[r][k], b[r][k])]]

CntAdd(a, b) == [r \in DOMAIN a |-> AddInt32(a[r], b[r])]

RECURSIVE ReduceMatSum(_, _)
\* what the root receives: its buffer and the others', as they arrive
ReduceMatSum(own, arrived) ==
    IF arrived = <<>> THEN own
    ELSE ReduceMatSum(MatAdd(own, Head(arrived)), Tail(arrived))

\* (the root's buffer alone)
ReduceCntSum_Own(own, arrived) == own

RECURSIVE ReduceCntSum(_, _)
ReduceCntSum(own, arrived) ==
    IF arrived = <<>> THEN own
    ELSE ReduceCntSum(CntAdd(own, Head(arrived)), Tail(arrived))

NoOutput ==
    [h5 |-> FALSE, h5_stack_count |-> ZeroCount(0),
     sac |-> FALSE, sac_user3 |-> ZeroCount(0)]

InitMain ==
    /\ cfg \in MainConfigs
    /\ mpi_ncpu \in 1..MaxP
    /\ fs \in UNION {[1..J -> DirKinds] : J \in 0..MaxJ}
    /\ proc = [r \in 0..(mpi_ncpu - 1) |-> Fresh]
    /\ reduce_mat = <<>>
    /\ reduce_cnt = <<>>
    /\ output = NoOutput

\* lines 72-205
Start ==
    \E r \in Ranks :
        /\ proc[r].pc = "start"
        /\ proc' = [proc EXCEPT ![r] = SetUp(proc[r], r, cfg, mpi_ncpu, fs)]
        /\ UNCHANGED <<cfg, mpi_ncpu, fs, reduce_mat, reduce_cnt, output,
                       varsPair, varsPass, varsRead, varsDist, varsPost, varsBound>>

\* one turn of `for it in directories[mpi_i1: mpi_i2]`, lines 207-243
ProcessGroup ==
    \E r \in Ranks :
        /\ proc[r].pc = "loop"
        /\ Len(proc[r].processed) < Len(proc[r].jobs)
        /\ LET it == proc[r].jobs[Len(proc[r].processed) + 1]
           IN  \E o \in GroupOutcomes(proc[r].spec_stack_mat, proc[r].stack_count,
                                      fs[it], cfg) :
                 proc' = [proc EXCEPT
                    ![r].spec_stack_mat = o.mat,
                    ![r].stack_count = o.cnt,
                    ![r].nread = proc[r].nread + o.nread,
                    ![r].processed =
                        IF o.status = "ok" THEN Append(proc[r].processed, it)
                        ELSE proc[r].processed,
                    ![r].pc = IF o.status = "ok" THEN "loop" ELSE o.status]
        /\ UNCHANGED <<cfg, mpi_ncpu, fs, reduce_mat, reduce_cnt, output,
                       varsPair, varsPass, varsRead, varsDist, varsPost, varsBound>>

\* line 254: the loop is over; the rank gives spec_stack_mat, and rank 0
\* returns with the sum once every other rank has given its own
ReduceMat ==
    \E r \in Ranks :
        /\ proc[r].pc = "loop"
        /\ Len(proc[r].processed) = Len(proc[r].jobs)
        /\ IF r = 0
           THEN /\ Len(reduce_mat) = mpi_ncpu - 1
                /\ proc' = [proc EXCEPT
                      ![r].global_spec_stack_mat =
                          ReduceMatSum(proc[r].spec_stack_mat, reduce_mat),
                      ![r].pc = "reduce_cnt"]
                /\ UNCHANGED reduce_mat
           ELSE /\ reduce_mat' = Append(reduce_mat, proc[r].spec_stack_mat)
                /\ proc' = [proc EXCEPT ![r].pc = "reduce_cnt"]
        /\ UNCHANGED <<cfg, mpi_ncpu, fs, reduce_cnt, output,
                       varsPair, varsPass, varsRead, varsDist, varsPost, varsBound>>

\* line 255: the same with stack_count
ReduceCount ==
    \E r \in Ranks :
        /\ proc[r].pc = "reduce_cnt"
        /\ IF r = 0
           THEN /\ Len(reduce_cnt) = mpi_ncpu - 1
                /\ proc' = [proc EXCEPT
                      ![r].global_stack_count =
                          ReduceCntSum(proc[r].stack_count, reduce_cnt),
                      ![r].pc = "barrier"]
                /\ UNCHANGED reduce_cnt
           ELSE /\ reduce_cnt' = Append(reduce_cnt, proc[r].stack_count)
                /\ proc' = [proc EXCEPT ![r].pc = "barrier"]
        /\ UNCHANGED <<cfg, mpi_ncpu, fs, reduce_mat, output,
                       varsPair, varsPass, varsRead, varsDist, varsPost, varsBound>>

\* line 256: a rank leaves the barrier once every rank has entered it
Barrier ==
    \E r \in Ranks :
        /\ proc[r].pc = "barrier"
        /\ \A q \in Ranks : proc[q].pc \in {"barrier", "finish", "done"}
        /\ proc' = [proc EXCEPT ![r].pc = "finish"]
        /\ UNCHANGED <<cfg, mpi_ncpu, fs, reduce_mat, reduce_cnt, output,
                       varsPair, varsPass, varsRead, varsDist, varsPost, varsBound>>

\* global_spec_stack_mat[irow][0] = 0.0 for every row (line 264)
ZeroFirstColumn(mat) ==
    [r \in DOMAIN mat |-> [k \in DOMAIN mat[r] |-> IF k = 0 THEN CZero ELSE mat[r][k]]]

\* (every rank runs the finisher and writes the outputs)
Finish_EveryRank ==
    \E r \in Ranks :
        /\ proc[r].pc = "finish"
        /\ proc' = [proc EXCEPT ![r].log = "closed", ![r].pc = "done"]
        /\ output' =
              [h5 |-> TRUE, h5_stack_count |-> proc[r].global_stack_count,
               sac |-> TRUE, sac_user3 |-> proc[r].stack_count]
        /\ UNCHANGED <<cfg, mpi_ncpu, fs, reduce_mat, reduce_cnt,
                       varsPair, varsPass, varsRead, varsDist, varsPost, varsBound>>

\* lines 259-338: on rank 0 the inverse transform, the post-processing and
\* the outputs (the hdf5 file takes global_stack_count, the header field
\* user3 of the sac files takes stack_count); on every rank the log is closed
Finish ==
    \E r \in Ranks :
        /\ proc[r].pc = "finish"
        /\ IF r = 0
           THEN /\ proc' = [proc EXCEPT
                      ![r].global_spec_stack_mat =
                          ZeroFirstColumn(proc[r].global_spec_stack_mat),
                      ![r].log = "closed", ![r].pc = "done"]
                /\ output' =
                      [h5 |-> ({"hdf5", "h5"} \cap cfg.output_format # {}),
                       h5_stack_count |->
                           IF {"hdf5", "h5"} \cap cfg.output_format # {}
                           THEN proc[r].global_stack_count ELSE ZeroCount(0),
                       sac |-> ({"sac", "SAC"} \cap cfg.output_format # {}),
                       sac_user3 |->
                           IF {"sac", "SAC"} \cap cfg.output_format # {}
                           THEN proc[r].stack_count ELSE ZeroCount(0)]
           ELSE /\ proc' = [proc EXCEPT ![r].log = "closed", ![r].pc = "done"]
                /\ UNCHANGED output
        /\ UNCHANGED <<cfg, mpi_ncpu, fs, reduce_mat, reduce_cnt,
                       varsPair, varsPass, varsRead, varsDist, varsPost, varsBound>>

Next == Start \/ ProcessGroup \/ ReduceMat \/ ReduceCount \/ Barrier \/ Finish

StartMain == InitMain /\ IdlePair /\ IdlePass /\ IdleRead /\ IdleDist /\ IdlePost /\ IdleBound

Spec == StartMain /\ [][Next]_vars

\* some rank has a directory of its slice left (ProcessGroup can be taken)
CanProcess ==
    \E r \in Ranks :
        proc[r].pc = "loop" /\ Len(proc[r].processed) < Len(proc[r].jobs)

\* The same run when every process keeps running: a step that stays
\* possible is taken (weak fairness of each action; for ProcessGroup it is
\* written out with CanProcess, the condition under which it is enabled).
SpecLive ==
    /\ StartMain /\ [][Next]_vars
    /\ WF_vars(Start) /\ WF_vars(ReduceMat) /\ WF_vars(ReduceCount)
    /\ WF_vars(Barrier) /\ WF_vars(Finish)
    /\ ([]<>~CanProcess \/ []<><<ProcessGroup>>_vars)

\* a turn of the inner loop of ccstack on the pair of a trace with itself
SelfPairTurn ==
    /\ PairStep
    /\ isac1 = isac2
    /\ ~pass_cfg.sel
    /\ pass_cfg.step > 0

\* the turn counted the pair in bin 0 and added the auto-power
\* conj(G[i,k]) * G[i,k] to row 0 on the columns [i1, i2)
SelfPairIntoBinZero ==
    LET G == pass_group.spec[isac1]
    IN  /\ pass_acc'.status = "run"
        /\ 0 \in DOMAIN pass_acc.cnt
        /\ pass_acc'.cnt = [pass_acc.cnt EXCEPT ![0] = pass_acc.cnt[0] + 1]
        /\ pass_acc'.mat = [pass_acc.mat EXCEPT ![0] =
              [k \in DOMAIN pass_acc.mat[0] |->
                  IF k >= pass_cfg.i1 /\ k < pass_cfg.i2
                  THEN CAdd(pass_acc.mat[0][k], CMul(CConj(G[k]), G[k]))
                  ELSE pass_acc.mat[0][k]]]

\* C23 (as claimed): with selection disabled, the self-pair (i, i) of every
\* trace is accumulated into bin 0, whatever dist_range is: stack_count[0]
\* grows by one and row 0 by conj(G[i,k]) * G[i,k].
C23_SelfPairInBinZero == [][SelfPairTurn => SelfPairIntoBinZero]_vars

\* C23 (amended): with selection disabled and a dist_range that starts at 0
\* (dmin = 0, dmax >= 0, dist_step > 0), the self-pair (i, i) of every trace
\* is accumulated into bin 0: stack_count[0], while below the largest int32,
\* grows by one and row 0 by conj(G[i,k]) * G[i,k] on the columns [i1, i2).
C23_SelfPairInBinZero_FromZero ==
    [][(/\ SelfPairTurn
        /\ pass_cfg.dmin = 0
        /\ pass_cfg.dmax >= 0
        /\ pass_acc.cnt[0] < MaxInt32)
          => SelfPairIntoBinZero]_vars

\* the self-pair of the first trace of a group, dist_range from 0: one pair
\* in bin 0, and |G[0,1]|^2 = 1*1 + 1*1 in row 0
C23_Witness ==
    /\ ~pass_cfg.sel
    /\ pass_cfg.dmin = 0
    /\ pass_cfg.step > 0
    /\ pass_group.n >= 1
    /\ isac1 = 0
    /\ isac2 = 1
    /\ pass_acc.status = "run"
    /\ pass_acc.cnt[0] = 1
    /\ pass_acc.mat[0][1] = <<2, 0>>

(***************************************************************************)
(* Claims on the run                                                        *)
(***************************************************************************)
\* the ranks that have left the loop over their directories
PastLoop(r) == proc[r].pc \in {"reduce_cnt", "barrier", "finish", "done"}

\* the names rank r is to process, in order: those of the sorted list at
\* positions [r * ceil(J / P), (r + 1) * ceil(J / P)) that exist
SliceOf(r) ==
    LET J == Cardinality(DOMAIN fs)
        n == CeilDiv(J, mpi_ncpu)
    IN  [k \in 1..Max(0, Min((r + 1) * n, J) - r * n) |-> r * n + k]

\* how many times rank r has processed directory d
TimesProcessed(r, d) ==
    Cardinality({k \in 1..Len(proc[r].processed) : proc[r].processed[k] = d})

RECURSIVE SumOver(_, _)
SumOver(f, S) ==
    IF S = {} THEN 0
    ELSE LET x == CHOOSE y \in S : TRUE IN f[x] + SumOver(f, S \ {x})

\* C2: what a rank has processed is the start of its contiguous slice
\* [rank * ceil(J / P), (rank + 1) * ceil(J / P)); a rank whose slice starts
\* at or beyond J processes nothing; once every rank has left its loop, every
\* directory has been processed exactly once, by exactly one rank.
C2_EveryDirectoryOnce ==
    LET J == Cardinality(DOMAIN fs)
        n == CeilDiv(J, mpi_ncpu)
    IN  /\ \A r \in Ranks :
              /\ Len(proc[r].processed) <= Len(SliceOf(r))
              /\ \A k \in 1..Len(proc[r].processed) :
                    proc[r].processed[k] = SliceOf(r)[k]
              /\ PastLoop(r) => proc[r].processed = SliceOf(r)
              /\ r * n >= J => proc[r].processed = <<>>
        /\ (\A r \in Ranks : PastLoop(r)) =>
              \A d \in DOMAIN fs :
                 SumOver([r \in Ranks |-> TimesProcessed(r, d)], Ranks) = 1

\* two ranks, three directories: rank 0 did the first two, rank 1 the last
C2_Witness ==
    /\ mpi_ncpu = 2
    /\ DOMAIN fs = 1..3
    /\ \A r \in Ranks : PastLoop(r)
    /\ proc[0].processed = <<1, 2>>
    /\ proc[1].processed = <<3>>

\* rank 0 is at or past the return of the second Reduce
RootReduced == proc[0].pc \in {"barrier", "finish", "done"}

\* a step of a Reduce on some rank
ReduceTurn ==
    \E r \in Ranks :
        \/ proc[r].pc = "loop" /\ proc'[r].pc = "reduce_cnt"
        \/ proc[r].pc = "reduce_cnt" /\ proc'[r].pc = "barrier"

\* rank 0 holds the sums, the other ranks hold None
SumOnRoot ==
    /\ \A r \in Ranks : r # 0 => proc[r].global_is_none
    /\ RootReduced =>
         \A b \in DOMAIN proc[0].global_stack_count :
            proc[0].global_stack_count[b] =
                SumOver([r \in Ranks |-> proc[r].stack_count[b]], Ranks)
    /\ proc[0].pc = "barrier" =>
         \A b \in DOMAIN proc[0].global_spec_stack_mat :
            \A k \in DOMAIN proc[0].global_spec_stack_mat[b] :
               /\ proc[0].global_spec_stack_mat[b][k][1] =
                    SumOver([r \in Ranks |-> proc[r].spec_stack_mat[b][k][1]], Ranks)
               /\ proc[0].global_spec_stack_mat[b][k][2] =
                    SumOver([r \in Ranks |-> proc[r].spec_stack_mat[b][k][2]], Ranks)

\* C3: after the reduction rank 0 holds, in every bin and column, the sum of
\* the ranks' local stacks; the global buffers of the other ranks stay None;
\* a Reduce changes no rank's local stack.
C3_RootHoldsSumOfLocals ==
    /\ []SumOnRoot
    /\ [][ReduceTurn =>
            \A r \in Ranks :
               /\ proc'[r].stack_count = proc[r].stack_count
               /\ proc'[r].spec_stack_mat = proc[r].spec_stack_mat]_vars

\* two ranks that both stacked pairs, after the reduction
C3_Witness ==
    /\ mpi_ncpu = 2
    /\ proc[0].pc = "barrier"
    /\ \E b \in DOMAIN proc[0].stack_count : proc[0].stack_count[b] > 0
    /\ \E b \in DOMAIN proc[1].stack_count : proc[1].stack_count[b] > 0
    /\ \E b \in DOMAIN proc[0].global_stack_count :
          /\ proc[0].global_stack_count[b] > proc[0].stack_count[b]
          /\ proc[0].global_stack_count[b] > proc[1].stack_count[b]

RECURSIVE SingleRun(_, _, _)
\* the stack_count vectors a run on one process can end with, from the
\* stacks (mat, cnt) and over the directories ds in order
SingleRun(mat, cnt, ds) ==
    IF ds = <<>> THEN {cnt}
    ELSE UNION {IF o.status = "ok" THEN SingleRun(o.mat, o.cnt, Tail(ds)) ELSE {} :
                  o \in GroupOutcomes(mat, cnt, fs[Head(ds)], cfg)}

SingleRunCounts ==
    LET B == NumBins(cfg.dmin, cfg.dmax, cfg.step)
    IN  SingleRun(ZeroMat(B, cfg.nrfft_valid), ZeroCount(B), SortedSeq(DOMAIN fs))

\* C4 (as claimed): the global stack_count of rank 0 is the one a run of the
\* same directories on a single process ends with, whatever the number of
\* processes and the order in which they finish.
C4_SameCountsAsSingleProcess ==
    RootReduced => \A ref \in SingleRunCounts : proc[0].global_stack_count = ref

\* C12 (as claimed): the pair count in the header of the sac file of bin b is
\* the reduced global_stack_count[b], the value the hdf5 file stores.
C12_SacCountIsGlobalCount ==
    output.sac =>
        /\ output.sac_user3 = proc[0].global_stack_count
        /\ output.h5 => output.sac_user3 = output.h5_stack_count

\* how far a rank is in main
PcOrder(pc) ==
    CASE pc = "start" -> 0
      [] pc = "loop" -> 1
      [] pc = "reduce_cnt" -> 2
      [] pc = "barrier" -> 3
      [] pc = "finish" -> 4
      [] pc = "done" -> 5
      [] OTHER -> 6

\* rank 0 is at or past the finisher only when every rank is through its
\* loop and both reductions; outputs exist only once rank 0 is done
FinisherAfterAll ==
    /\ proc[0].pc \in {"finish", "done"} =>
          /\ \A r \in Ranks :
                /\ proc[r].pc \in {"barrier", "finish", "done"}
                /\ proc[r].processed = proc[r].jobs
          /\ Len(reduce_mat) = mpi_ncpu - 1
          /\ Len(reduce_cnt) = mpi_ncpu - 1
    /\ (output.h5 \/ output.sac) => proc[0].pc = "done"

\* a rank never goes back (so it passes each Reduce at most once), and only
\* the finisher of rank 0 changes the outputs
OnlyRootWrites ==
    /\ \A r \in Ranks : PcOrder(proc'[r].pc) >= PcOrder(proc[r].pc)
    /\ \A r \in Ranks :
          (proc[r].pc = "reduce_cnt" /\ proc'[r].pc # "reduce_cnt") =>
              proc'[r].pc = "barrier"
    /\ output' # output => (proc[0].pc = "finish" /\ proc'[0].pc = "done")

\* C13: rank 0 starts the finisher and the outputs only after every rank has
\* left its loop and called the reductions; every rank calls each reduction
\* once; the other ranks never run the finisher nor write an output.
C13_FinisherAfterEveryReduce ==
    /\ []FinisherAfterAll
    /\ [][OnlyRootWrites]_vars

\* two ranks and one directory: rank 1 had nothing to do, called the
\* reductions, and rank 0 wrote the outputs
C13_Witness ==
    /\ mpi_ncpu = 2
    /\ DOMAIN fs = 1..1
    /\ proc[1].jobs = <<>>
    /\ proc[1].pc = "done"
    /\ proc[0].pc = "done"
    /\ output.h5 /\ output.sac
    /\ Len(reduce_cnt) = 1

\* C14 (as claimed): once a rank has raised before the reduction, the run
\* stops: no rank stays blocked, and rank 0 writes no output.
C14_AbortStopsRun ==
    /\ (\E r \in Ranks : proc[r].pc = "raised")
          ~> (\A r \in Ranks : proc[r].pc \in {"raised", "fault", "done"})
    /\ []((\E r \in Ranks : proc[r].pc = "raised") => (~output.h5 /\ ~output.sac))

\* the arguments of main that the specification calls inconsistent
ConfigInconsistent ==
    \/ cfg.step <= 0
    \/ (cfg.pre_filter # "none" /\ FilterRaises(cfg.pre_filter))
    \/ cfg.post_filter = "none"

\* C10 (as claimed): with inconsistent arguments a rank fails before any
\* I/O: it has opened no log file, listed no directory, read no trace, and
\* nothing is written.
C10_FatalBeforeAnyIO ==
    ConfigInconsistent =>
        \A r \in Ranks :
           /\ proc[r].pc # "start" => proc[r].pc = "raised"
           /\ proc[r].log = "none" /\ ~proc[r].globbed /\ proc[r].nread = 0
           /\ ~output.h5 /\ ~output.sac

(***************************************************************************)
(* SpecDist: the dist vector of main                                        *)
(***************************************************************************)
\* np.arange(start, stop): from start in steps of one degree, below stop
Arange(start, stop) ==
    [b \in 0..(Max(0, CeilDiv(stop - start, Deg(1))) - 1) |-> start + b * Deg(1)]

\* dist_range from 0, 0.5 or 1 degree, up to MaxDist degrees wide, in half
\* degrees; dist_step 0.5, 1 or 2 degrees
DistInputs ==
    {[dmin |-> lo, dmax |-> lo + 5 * k, step |-> st] :
        lo \in {0, 5, Deg(1)}, k \in 0..(2 * MaxDist), st \in {5, Deg(1), Deg(2)}}

NoDist == [made |-> FALSE, dist |-> ZeroCount(0)]

InitDist ==
    /\ dist_cfg \in DistInputs
    /\ dist_out = NoDist

\* dist = np.arange(dist_range[0], dist_range[1] + dist_step), line 170
MakeDist ==
    /\ ~dist_out.made
    /\ dist_out' = [made |-> TRUE,
                    dist |-> Arange(dist_cfg.dmin, dist_cfg.dmax + dist_cfg.step)]
    /\ UNCHANGED <<dist_cfg, varsPair, varsPass, varsRead, varsMain, varsPost, varsBound>>

NextDist == MakeDist

StartDist == InitDist /\ IdlePair /\ IdlePass /\ IdleRead /\ IdleMain /\ IdlePost /\ IdleBound

SpecDist == StartDist /\ [][NextDist]_vars

\* C11 (as claimed): for dist_step > 0 the dist vector has
\* B = floor((dmax - dmin) / dist_step) + 1 entries, the stack has as many
\* rows, and dist[b] = dmin + b * dist_step.
C11_DistIsBinCentres ==
    (dist_out.made /\ dist_cfg.step > 0) =>
        LET B == (dist_cfg.dmax - dist_cfg.dmin) \div dist_cfg.step + 1
        IN  /\ DOMAIN dist_out.dist = 0..(B - 1)
            /\ NumBins(dist_cfg.dmin, dist_cfg.dmax, dist_cfg.step) = B
            /\ \A b \in DOMAIN dist_out.dist :
                  dist_out.dist[b] = dist_cfg.dmin + b * dist_cfg.step

(***************************************************************************)
(* SpecPost: the finisher of rank 0, lines 259-333, on one row of the stack *)
(*                                                                          *)
(* Times are integer numbers of half sample intervals (TimeDelta is delta). *)
(* A sample of the row is the rational num[k] / den: den is 1 until the     *)
(* normalisation divides the row by its maximum.  The inverse FFT, the      *)
(* filter and the Tukey window are kernels: their results are inputs.       *)
(***************************************************************************)
MaxN == 3

TimeDelta == 2

\* what irfft returns for a row, length M = 2 * npts: ramps (every sample
\* tells its position), a single peak at each position, zeros
XRows(M) ==
    {[k \in 0..(M - 1) |-> k + 1], [k \in 0..(M - 1) |-> -(k + 1)],
     [k \in 0..(M - 1) |-> 0]}
    \cup {[k \in 0..(M - 1) |-> IF k = j THEN 2 ELSE -1] : j \in 0..(M - 1)}

\* the times a post_cut is made of, around and beyond the lag axis of npts
CutTimes(npts) ==
    {-(npts + 1) * TimeDelta, -TimeDelta, -1, 0, 1, TimeDelta,
     (npts - 1) * TimeDelta, (npts + 1) * TimeDelta, (npts + 2) * TimeDelta}

NoCut == [on |-> FALSE, t1 |-> 0, t2 |-> 0]

PostCuts(npts) ==
    {NoCut} \cup {[on |-> TRUE, t1 |-> q[1], t2 |-> q[2]] :
                     q \in {q \in CutTimes(npts) \X CutTimes(npts) : q[1] <= q[2]}}

PostConfigsOf(n) ==
    {[npts |-> n, post_folding |-> fo, post_filter |-> fi, post_norm |-> no,
      post_cut |-> cu] :
        fo \in BOOLEAN, fi \in {"none", "bandpass"},
        no \in BOOLEAN, cu \in PostCuts(n)}

PostConfigs == UNION {PostConfigsOf(n) : n \in 1..MaxN}

\* (np.roll(x, -shift))
Roll_Left(x, shift) ==
    LET n == Cardinality(DOMAIN x)
    IN  [i \in DOMAIN x |-> x[(i + shift) % n]]

\* np.roll(x, shift) of an array indexed from 0
Roll(x, shift) ==
    LET n == Cardinality(DOMAIN x)
    IN  [i \in DOMAIN x |-> x[(i - shift) % n]]

\* a[i1:i2] of an array indexed from 0: an index below 0 counts from the
\* end, and the bounds are clipped to the array
PyIndex(i, n) == IF i < 0 THEN Max(0, i + n) ELSE Min(i, n)

SliceRow(a, i1, i2) ==
    LET n == Cardinality(DOMAIN a)
        lo == PyIndex(i1, n)
        hi == PyIndex(i2, n)
    IN  [k \in 0..(hi - lo - 1) |-> a[lo + k]]

RowLen(a) == Cardinality(DOMAIN a)

\* np.max of a row that is not empty
RowMax(a) == CHOOSE m \in {a[k] : k \in DOMAIN a} : \A k \in DOMAIN a : a[k] <= m

\* (row += row[::-1] done sample by sample on the row itself: the second
\* half reads samples the first half has already changed)
AddReversed_InPlace(a) ==
    LET n == RowLen(a)
        first == [k \in DOMAIN a |-> a[k] + a[n - 1 - k]]
    IN  [k \in DOMAIN a |->
            IF 2 * k <= n - 1 THEN first[k] ELSE a[k] + first[n - 1 - k]]

\* row += row[::-1]
AddReversed(a) == [k \in DOMAIN a |-> a[k] + a[RowLen(a) - 1 - k]]

\* what the filter can return for a row: nothing left, the row with its
\* sign turned, the row smoothed with its neighbours
FilterResults(a) ==
    {[k \in DOMAIN a |-> 0],
     [k \in DOMAIN a |-> -a[k]],
     [k \in DOMAIN a |-> a[k] + (IF k > 0 THEN a[k - 1] ELSE 0)
                              + (IF k + 1 < RowLen(a) THEN a[k + 1] ELSE 0)]}

\* what tukey_jit can return for n samples: no taper, or the two ends at 0
TukeyWindows(n) ==
    {[k \in 0..(n - 1) |-> 1],
     [k \in 0..(n - 1) |-> IF k = 0 \/ k = n - 1 THEN 0 ELSE 1]}

InitPost ==
    /\ post_cfg \in PostConfigs
    /\ post_st \in
         {[pc |-> "ifft", x |-> x, num |-> ZeroCount(0), den |-> 1,
           cc_t1 |-> 0, cc_t2 |-> 0, ops |-> <<>>,
           normed |-> FALSE, uncut |-> ZeroCount(0), uncut_t1 |-> 0, uncut_t2 |-> 0] :
             x \in XRows(2 * post_cfg.npts)}

\* lines 262-267 and 273: roll by npts - 1, drop the last sample
Ifft ==
    /\ post_st.pc = "ifft"
    /\ LET rollsize == post_cfg.npts - 1
           fftsize == 2 * post_cfg.npts
           rolled == Roll(post_st.x, rollsize)
       IN  post_st' = [post_st EXCEPT
              !.num = SliceRow(rolled, 0, fftsize - 1),
              !.cc_t1 = -rollsize * TimeDelta,
              !.cc_t2 = rollsize * TimeDelta,
              !.ops = Append(post_st.ops, "roll"),
              !.pc = "fold"]
    /\ UNCHANGED <<post_cfg, varsPair, varsPass, varsRead, varsMain, varsDist, varsBound>>

\* lines 275-279
PostFolding ==
    /\ post_st.pc = "fold"
    /\ IF post_cfg.post_folding
       THEN LET rollsize == post_cfg.npts - 1
                added == AddReversed(post_st.num)
            IN  post_st' = [post_st EXCEPT
                   !.num = SliceRow(added, rollsize, RowLen(added)),
                   !.cc_t1 = 0,
                   !.cc_t2 = rollsize * TimeDelta,
                   !.ops = Append(post_st.ops, "fold"),
                   !.pc = "filter"]
       ELSE post_st' = [post_st EXCEPT !.pc = "filter"]
    /\ UNCHANGED <<post_cfg, varsPair, varsPass, varsRead, varsMain, varsDist, varsBound>>

\* lines 281-288: the row is filtered, then multiplied by the window
PostFilter ==
    /\ post_st.pc = "filter"
    /\ IF post_cfg.post_filter # "none"
       THEN \E w \in TukeyWindows(RowLen(post_st.num)) :
              \E f \in FilterResults(post_st.num) :
                 post_st' = [post_st EXCEPT
                    !.num = [k \in DOMAIN f |-> f[k] * w[k]],
                    !.ops = post_st.ops \o <<"filter", "window">>,
                    !.pc = "norm"]
       ELSE post_st' = [post_st EXCEPT !.pc = "norm"]
    /\ UNCHANGED <<post_cfg, varsPair, varsPass, varsRead, varsMain, varsDist, varsBound>>

\* lines 290-295: v = np.max(row); if v > 0: row *= 1 / v
PostNorm ==
    /\ post_st.pc = "norm"
    /\ IF post_cfg.post_norm
       THEN LET v == RowMax(post_st.num)
            IN  IF v > 0
                THEN post_st' = [post_st EXCEPT
                        !.den = v, !.normed = TRUE,
                        !.ops = Append(post_st.ops, "norm"), !.pc = "cut"]
                ELSE post_st' = [post_st EXCEPT !.pc = "cut"]
       ELSE post_st' = [post_st EXCEPT !.pc = "cut"]
    /\ UNCHANGED <<post_cfg, varsPair, varsPass, varsRead, varsMain, varsDist, varsBound>>

\* lines 297-307
PostCut ==
    /\ post_st.pc = "cut"
    /\ IF post_cfg.post_cut.on
       THEN LET cc_t1 == post_st.cc_t1
                cc_t2 == post_st.cc_t2
                post_t1 == IF post_cfg.post_cut.t1 < cc_t1 THEN cc_t1
                           ELSE post_cfg.post_cut.t1
                post_t2 == IF post_cfg.post_cut.t2 > cc_t2 THEN cc_t2
                           ELSE post_cfg.post_cut.t2
                post_i1 == RoundHalfEven(post_t1 - cc_t1, TimeDelta)
                post_i2 == RoundHalfEven(post_t2 - cc_t1, TimeDelta) + 1
                new_t1 == cc_t1 + post_i1 * TimeDelta
            IN  post_st' = [post_st EXCEPT
                   !.uncut = post_st.num, !.uncut_t1 = cc_t1, !.uncut_t2 = cc_t2,
                   !.cc_t1 = new_t1,
                   !.cc_t2 = new_t1 + (post_i2 - post_i1 - 1) * TimeDelta,
                   !.num = SliceRow(post_st.num, post_i1, post_i2),
                   !.ops = Append(post_st.ops, "cut"),
                   !.pc = "output"]
       ELSE post_st' = [post_st EXCEPT
                   !.uncut = post_st.num, !.uncut_t1 = post_st.cc_t1,
                   !.uncut_t2 = post_st.cc_t2, !.pc = "output"]
    /\ UNCHANGED <<post_cfg, varsPair, varsPass, varsRead, varsMain, varsDist, varsBound>>

\* lines 316-333: the row and the lag axis go to the outputs as they are
Output ==
    /\ post_st.pc = "output"
    /\ post_st' = [post_st EXCEPT !.pc = "done"]
    /\ UNCHANGED <<post_cfg, varsPair, varsPass, varsRead, varsMain, varsDist, varsBound>>

NextPost == Ifft \/ PostFolding \/ PostFilter \/ PostNorm \/ PostCut \/ Output

StartPost == InitPost /\ IdlePair /\ IdlePass /\ IdleRead /\ IdleMain /\ IdleDist /\ IdleBound

SpecPost == StartPost /\ [][NextPost]_vars

(***************************************************************************)
(* get_bound: the band of the half spectrum above the level                 *)
(***************************************************************************)
MaxHalf == 2

MaxAmp == 2

\* critical_level: 0.001 (line 118) and a level that parts the magnitudes
Levels == {<<1, 1000>>, <<1, 2>>}

\* np.abs(rfft(x, fftsize)) of the filtered impulse: fftsize / 2 + 1
\* magnitudes, none of them negative
Amps(fftsize) == [0..(fftsize \div 2) -> 0..MaxAmp]

BoundInputs ==
    UNION {{[fftsize |-> 2 * h, amp |-> a, level |-> l] :
               a \in Amps(2 * h), l \in Levels} : h \in 1..MaxHalf}

\* amp > c with c = np.max(amp) * critical_level
AboveLevel(amp, level) ==
    [i \in DOMAIN amp |-> amp[i] * level[2] > RowMax(amp) * level[1]]

\* np.argmax (v = TRUE) and np.argmin (v = FALSE) of the booleans b[from:]:
\* the first place of v, and 0 when v is not there
ArgFirst(b, from, v) ==
    LET at == {i \in DOMAIN b : i >= from /\ b[i] = v}
    IN  IF at = {} THEN 0
        ELSE (CHOOSE i \in at : \A j \in at : i <= j) - from

\* lines 427-435
get_bound(fftsize, amp, critical_level) ==
    LET above == AboveLevel(amp, critical_level)
        i1 == ArgFirst(above, 0, TRUE)
        i2 == ArgFirst(above, i1, FALSE) + i1 + 1
    IN  <<IF i1 < 0 THEN 0 ELSE i1, IF i2 >= fftsize THEN fftsize ELSE i2>>

NoBound == [made |-> FALSE, i1 |-> 0, i2 |-> 0]

InitBound ==
    /\ gb_in \in BoundInputs
    /\ gb_out = NoBound

GetBound ==
    /\ ~gb_out.made
    /\ LET b == get_bound(gb_in.fftsize, gb_in.amp, gb_in.level)
       IN  gb_out' = [made |-> TRUE, i1 |-> b[1], i2 |-> b[2]]
    /\ UNCHANGED <<gb_in, varsPair, varsPass, varsRead, varsMain, varsDist, varsPost>>

NextBound == GetBound

StartBound == InitBound /\ IdlePair /\ IdlePass /\ IdleRead /\ IdleMain /\ IdleDist /\ IdlePost

SpecBound == StartBound /\ [][NextBound]_vars

(***************************************************************************)
(* Claims on the finisher                                                   *)
(***************************************************************************)
\* C15 (as claimed): with post_norm, a row whose maximum before the
\* normalisation is positive is emitted with maximum exactly 1, whatever
\* the folding, the filter and the cut; a row whose maximum is not positive
\* is left as it is by the normalisation.
C15_EmittedMaxIsOne ==
    (post_st.pc = "done" /\ post_cfg.post_norm) =>
        IF post_st.normed
        THEN RowLen(post_st.num) > 0 /\ RowMax(post_st.num) = post_st.den
        ELSE post_st.den = 1

\* the place of an operation in what was applied to the row (0: not applied)
PlaceOf(op) ==
    IF \E k \in 1..Len(post_st.ops) : post_st.ops[k] = op
    THEN CHOOSE k \in 1..Len(post_st.ops) : post_st.ops[k] = op
    ELSE 0

\* C18 (as claimed): with post_filter, the row is multiplied by the Tukey
\* window first and filtered after; the filter never gets the row without
\* the window.
C18_WindowBeforeFilter ==
    PlaceOf("filter") > 0 =>
        (PlaceOf("window") > 0 /\ PlaceOf("window") < PlaceOf("filter"))

\* t clipped into [lo, hi]
Clip(t, lo, hi) == IF t < lo THEN lo ELSE IF t > hi THEN hi ELSE t

\* C19 (as claimed): with post_cut (t1, t2), both times are clipped into the
\* lag axis [cc_t0, cc_t1] and the emitted row is the samples
\* round((t1 - cc_t0) / delta) .. round((t2 - cc_t0) / delta) inclusive of
\* the row before the cut; the emitted axis ends at cc_t0 + (T - 1) * delta
\* for the T columns emitted.
C19_CutIsClippedWindow ==
    (post_st.pc = "done" /\ post_cfg.post_cut.on) =>
        LET t1 == Clip(post_cfg.post_cut.t1, post_st.uncut_t1, post_st.uncut_t2)
            t2 == Clip(post_cfg.post_cut.t2, post_st.uncut_t1, post_st.uncut_t2)
            i1 == RoundHalfEven(t1 - post_st.uncut_t1, TimeDelta)
            i2 == RoundHalfEven(t2 - post_st.uncut_t1, TimeDelta)
        IN  /\ post_st.num = [k \in 0..(i2 - i1) |-> post_st.uncut[i1 + k]]
            /\ post_st.cc_t2 = post_st.cc_t1 + (RowLen(post_st.num) - 1) * TimeDelta

FoldCount == Cardinality({i \in 1..Len(post_st.ops) : post_st.ops[i] = "fold"})

\* the two-sided row r (length M - 1) reads the same in both directions
IsSymmetric(r) == \A k \in DOMAIN r : r[k] = r[RowLen(r) - 1 - k]

\* the folding step seen as one step from the two-sided row r to the row out
FoldedFrom(r, out) ==
    LET N == post_cfg.npts
    IN  IF post_cfg.post_folding
        THEN /\ DOMAIN out = 0..(N - 1)
             /\ \A tau \in 0..(N - 1) : out[tau] = r[N - 1 + tau] + r[N - 1 - tau]
             /\ IsSymmetric(r) => \A tau \in 0..(N - 1) : out[tau] = 2 * r[N - 1 + tau]
             /\ post_st'.cc_t1 = 0
             /\ post_st'.cc_t2 = (N - 1) * TimeDelta
        ELSE /\ out = r
             /\ DOMAIN out = 0..(2 * N - 2)
             /\ post_st'.cc_t1 = -(N - 1) * TimeDelta
             /\ post_st'.cc_t2 = (N - 1) * TimeDelta

FoldedOnce ==
    post_st.pc \in {"filter", "norm", "cut", "output", "done"} =>
        FoldCount = (IF post_cfg.post_folding THEN 1 ELSE 0)

FirstBelowAfter(above, i1, half_len) ==
    LET at == {j \in DOMAIN above : j > i1 /\ ~above[j]}
    IN  IF at = {} THEN half_len ELSE CHOOSE j \in at : \A k \in at : j <= k

\* C22: for a magnitude A with a positive maximum, get_bound returns (i1, i2)
\* with i1 the first index where A[i] > eps*max(A) and i2 the first index
\* after i1 where A[i] <= eps*max(A), or M/2 + 1 when the magnitude never
\* falls back to the level after i1.
C22_BoundIsBandAboveLevel ==
    (gb_out.made /\ RowMax(gb_in.amp) > 0) =>
        LET above == AboveLevel(gb_in.amp, gb_in.level)
            first == CHOOSE i \in DOMAIN above :
                        above[i] /\ \A j \in DOMAIN above : above[j] => i <= j
        IN  /\ gb_out.i1 = first
            /\ gb_out.i2 = FirstBelowAfter(above, first, gb_in.fftsize \div 2 + 1)

(***************************************************************************)
(* Claims on rd_preproc_whiten_single                                       *)
(***************************************************************************)
\* a trace that is to be skipped: no data, all-zero data or non-finite data
\* (as read, or after the preprocessing and whitening)
IsSkipped(f) ==
    \/ f.read \in {"none", "zero", "nan"}
    \/ f.chain \in {"zero", "nan"}

IsAccepted(f) == ~IsSkipped(f)

AcceptedFiles == SelectSeq(fnms, IsAccepted)

RowsAre(a, n) == DOMAIN a = 0..(n - 1)

\* C8: the call returns (a skipped trace does not abort it) and the arrays it
\* returns have one row per accepted trace, row r holding the spectrum prefix
\* and the header values of the r-th accepted trace in file order.
C8_OneRowPerAcceptedTrace ==
    /\ (rd_cfg.pre_filter = "none" \/ ~FilterRaises(rd_cfg.pre_filter))
          => rd.status # "raised"
    /\ rd.status = "returned" =>
        LET acc == AcceptedFiles
            n == Len(acc)
        IN  /\ RowsAre(rd.spectra, n) /\ RowsAre(rd.stlo, n) /\ RowsAre(rd.stla, n)
            /\ RowsAre(rd.evlo, n) /\ RowsAre(rd.evla, n)
            /\ RowsAre(rd.az, n) /\ RowsAre(rd.baz, n)
            /\ \A r \in 0..(n - 1) :
                 /\ rd.spectra[r] = [k \in 0..(rd_cfg.nrfft_valid - 1) |-> acc[r + 1].spec[k]]
                 /\ rd.stlo[r] = acc[r + 1].hdr.stlo /\ rd.stla[r] = acc[r + 1].hdr.stla
                 /\ rd.evlo[r] = acc[r + 1].hdr.evlo /\ rd.evla[r] = acc[r + 1].hdr.evla
                 /\ rd.az[r] = acc[r + 1].hdr.az /\ rd.baz[r] = acc[r + 1].hdr.baz

\* a call that returned with a skipped trace between two accepted ones
C8_Witness ==
    /\ rd.status = "returned"
    /\ Len(fnms) = 3
    /\ IsAccepted(fnms[1]) /\ fnms[2].read = "nan" /\ IsAccepted(fnms[3])
    /\ DOMAIN rd.spectra = 0..1
    /\ rd.stlo[1] = fnms[3].hdr.stlo

\* C9 (as claimed): a trace whose header delta differs from the configured
\* delta is dropped: the rows returned are those of the accepted traces whose
\* header delta is the configured one.
C9_DeltaMismatchDropped ==
    rd.status = "returned" =>
        LET ok(f) == IsAccepted(f) /\ f.hdr.delta = rd_cfg.delta
        IN  /\ RowsAre(rd.spectra, Len(SelectSeq(fnms, ok)))
            /\ \A r \in DOMAIN rd.stlo :
                 \A i \in 1..Len(fnms) :
                    fnms[i].hdr.stlo = rd.stlo[r] => fnms[i].hdr.delta = rd_cfg.delta

(***************************************************************************)
(* Claims on a group without traces                                         *)
(***************************************************************************)
\* the wildcard matches no file of directory d, or every trace is skipped
NoTraceAccepted(d) == \A i \in 1..Len(d.files) : IsSkipped(d.files[i])

\* rank r takes a turn of the loop of line 207 on a group without traces
EmptyGroupTurn(r) ==
    /\ proc[r].pc = "loop"
    /\ proc'[r] # proc[r]
    /\ Len(proc[r].processed) < Len(proc[r].jobs)
    /\ NoTraceAccepted(fs[proc[r].jobs[Len(proc[r].processed) + 1]])

\* C24 (as claimed): a group in which no trace is accepted leaves the
\* worker's spectral stack and stack_count as they were, and the worker goes
\* on with its loop (to its next group, then to the reduction), with
\* selection disabled and with selection enabled.
C24_EmptyGroupLeavesStack ==
    [][\A r \in Ranks :
          EmptyGroupTurn(r) =>
             /\ proc'[r].spec_stack_mat = proc[r].spec_stack_mat
             /\ proc'[r].stack_count = proc[r].stack_count
             /\ proc'[r].pc = "loop"
             /\ Len(proc'[r].processed) = Len(proc[r].processed) + 1]_vars
====
